---- MODULE Spec2Model ----
(***************************************************************************)
(* guardian/onward, main.go: an HTTP relay for the "most viewed" lists of  *)
(* the content API (CAPI).  One goroutine per inbound request runs        *)
(* mostViewedHandler; the three editions uk, us and au go through          *)
(* cachedGet and a shared go-cache store, every other path goes straight   *)
(* to capiGet.  The response is the reshaped item list (asItemList,        *)
(* asJSON) or a bare 500.                                                  *)
(*                                                                         *)
(* A handler is cut where another goroutine can observe or change the      *)
(* shared store between two of its statements: at c.Get, at the blocking   *)
(* http.Get / ReadAll inside capiGet, and at c.Set.                        *)
(*                                                                         *)
(* Time is counted in ticks of 5 minutes.                                  *)
(***************************************************************************)
EXTENDS Integers, Sequences, FiniteSets, Bags, TLC

\* ---------------------------------------------------------------- bounds
MaxTime == 2          \* the clock stops here
MaxInflight == 2      \* handlers running at once
MaxResults == 4       \* longest mostViewed list handed to asItemList

\* ------------------------------------------------------------- constants
TTL == 1                        \* cache.New(5*time.Minute, ...)
CleanupInterval == 2 * TTL      \* cache.New(..., 10*time.Minute)
DefaultExpiration == 0          \* cache.DefaultExpiration
StatusOK == 200                 \* w.Write without WriteHeader
StatusInternalServerError == 500

AllowList == {"uk", "us", "au"}
Paths == AllowList \cup {"fr"}
APIKey == "test"

\* ------------------------------------------------------------ data model
\* CAPIItem.ID of the n-th article of an edition; the zero CAPIItem has ID "".
CAPIItem(p, n) == <<p, n>>
ZeroItem == CAPIItem("", 0)

\* CAPIResponse: only Response.Results is kept, as the sequence of the IDs.
CAPIResponse(results) == [Results |-> results]
ZeroResponse == CAPIResponse(<<>>)

\* Item with the placeholder fields of asItemList.
Item(id) ==
  [URL |-> id, LinkText |-> "foo", ShowByline |-> "foo", Byline |-> "foo",
   Image |-> "foo", IsLiveblog |-> "foo"]

\* The i-th step of the range loop: items = append(items, item).
RECURSIVE appendItems(_, _)
appendItems(items, results) ==
  IF results = <<>> THEN items
  ELSE appendItems(Append(items, Item(Head(results))), Tail(results))

\* (mutant) the loop skips an ID equal to the one before it.
RECURSIVE appendDistinct(_, _, _)
appendDistinct(items, results, last) ==
  IF results = <<>> THEN items
  ELSE IF <<Head(results)>> = last
    THEN appendDistinct(items, Tail(results), last)
    ELSE appendDistinct(Append(items, Item(Head(results))), Tail(results),
                        <<Head(results)>>)

asItemListDistinct(resp) ==
  [Heading |-> "Placeholder heading", Trails |-> appendDistinct(<<>>, resp.Results, <<>>)]

asItemList(resp) ==
  [Heading |-> "Placeholder heading", Trails |-> appendItems(<<>>, resp.Results)]

\* json.Marshal of an ItemList: the struct tags name the members, and a nil
\* slice (no append happened) is written as null.
itemJSON(it) ==
  [url |-> it.URL, linkText |-> it.LinkText, showByline |-> it.ShowByline,
   byline |-> it.Byline, image |-> it.Image, isLiveBlog |-> it.IsLiveblog]

asJSON(il) ==
  [heading |-> il.Heading,
   trails |-> IF il.Trails = <<>> THEN [null |-> TRUE, elems |-> <<>>]
              ELSE [null |-> FALSE,
                    elems |-> [i \in DOMAIN il.Trails |-> itemJSON(il.Trails[i])]]]

\* -------------------------------------------------------------- errors
\* An error is the chain of its messages, outermost first; nil is <<>>.
\* err.Error() joins the chain with ": ".
nil == <<>>
Wrap(err, msg) == <<msg>> \o err
NetError == <<"net/http: transport error">>
ReadError == <<"unexpected EOF">>
SyntaxError == <<"json: invalid character">>
UnmarshalTypeError == <<"json: cannot unmarshal">>

\* -------------------------------------------------------------- upstream
\* What the content API (or the network) does with one GET for path p.
\* transport: http.Get fails.  Otherwise a response arrived, with a status
\* line nothing reads, a body stream that may break, and a body that is
\* not JSON ("syntax"), JSON of another shape ("type": decoded in part) or
\* JSON that fits ("ok"; an error envelope without mostViewed fits too).
Outcome(transport, status, readErr, json, results) ==
  [transport |-> transport, status |-> status, readErr |-> readErr,
   json |-> json, results |-> results]

MostViewed(p) == <<CAPIItem(p, 1), CAPIItem(p, 2)>>
Partial(p) == <<CAPIItem(p, 1), ZeroItem>>

Outcomes(p) ==
  { Outcome(TRUE, 0, FALSE, "none", <<>>),
    Outcome(FALSE, StatusOK, TRUE, "none", <<>>),
    Outcome(FALSE, StatusOK, FALSE, "syntax", <<>>),
    Outcome(FALSE, StatusOK, FALSE, "type", Partial(p)),
    Outcome(FALSE, StatusOK, FALSE, "ok", MostViewed(p)),
    Outcome(FALSE, 503, FALSE, "ok", <<>>),
    Outcome(FALSE, 503, FALSE, "syntax", <<>>) }

URL(path) == [host |-> "content.guardianapis.com", path |-> path, key |-> APIKey]

\* (mutant) every failure is wrapped as "GET failed".
capiGetOneMessage(path, o) ==
  IF o.transport
    THEN [items |-> ZeroResponse, err |-> Wrap(NetError, "GET failed")]
  ELSE IF o.readErr
    THEN [items |-> ZeroResponse, err |-> Wrap(ReadError, "GET failed")]
  ELSE IF o.json = "syntax"
    THEN [items |-> ZeroResponse, err |-> Wrap(SyntaxError, "GET failed")]
  ELSE IF o.json = "type"
    THEN [items |-> CAPIResponse(o.results), err |-> Wrap(UnmarshalTypeError, "GET failed")]
  ELSE [items |-> CAPIResponse(o.results), err |-> nil]

\* capiGet after http.Get returned o for URL(path).
capiGet(path, o) ==
  IF o.transport
    THEN [items |-> ZeroResponse, err |-> Wrap(NetError, "GET failed")]
  ELSE IF o.readErr
    THEN [items |-> ZeroResponse, err |-> Wrap(ReadError, "Unable to read response body")]
  ELSE IF o.json = "syntax"
    THEN [items |-> ZeroResponse,
          err |-> Wrap(SyntaxError, "Unable to unmarshal response body")]
  ELSE IF o.json = "type"
    THEN [items |-> CAPIResponse(o.results),
          err |-> Wrap(UnmarshalTypeError, "Unable to unmarshal response body")]
  ELSE [items |-> CAPIResponse(o.results), err |-> nil]

\* ----------------------------------------------------------------- cache
\* go-cache: a map from key to Item{Object, Expiration}; Expiration 0 never
\* expires.  The map is a function whose domain is the keys present.
cacheSet(c, k, x, d, t) ==
  LET dd == IF d = DefaultExpiration THEN TTL ELSE d
      e == IF dd > 0 THEN t + dd ELSE 0
  IN  (k :> [Object |-> x, Expiration |-> e]) @@ c

Expired(item, t) == item.Expiration > 0 /\ t > item.Expiration

cacheGet(c, k, t) ==
  IF k \in DOMAIN c /\ ~Expired(c[k], t)
    THEN [found |-> TRUE, items |-> c[k].Object]
    ELSE [found |-> FALSE, items |-> ZeroResponse]

DeleteExpired(c, t) ==
  [k \in {x \in DOMAIN c : ~Expired(c[x], t)} |-> c[k]]

\* --------------------------------------------------------------- handler
\* (mutant) every path takes the cached branch.
usesCacheAlways(path) == TRUE

\* The switch of mostViewedHandler.
usesCache(path) == path \in {"uk", "us", "au"}

\* (mutant) the lookup uses the untrimmed request path as its key.
cachedGetLookupUntrimmed(c, path, t) == cacheGet(c, "/most-viewed/", t)

\* cachedGet, first statement.
cachedGetLookup(c, path, t) == cacheGet(c, path, t)

\* (mutant) c.Add in place of c.Set: an unexpired entry is kept.
cachedGetStoreAdd(c, path, items, t) ==
  IF cacheGet(c, path, t).found THEN c
  ELSE cacheSet(c, path, items, DefaultExpiration, t)

\* (mutant) cache.NoExpiration (-1) in place of cache.DefaultExpiration.
cachedGetStoreForever(c, path, items, t) == cacheSet(c, path, items, -1, t)

\* (mutant) every edition is stored under the key uk.
cachedGetStoreOneKey(c, path, items, t) ==
  cacheSet(c, "uk", items, DefaultExpiration, t)

\* cachedGet, last statements.
cachedGetStore(c, path, items, t) == cacheSet(c, path, items, DefaultExpiration, t)

\* (mutant) no return after errorResponse: the handler goes on to w.Write.
respondNoReturn(items, err) ==
  IF err # nil
    THEN [writes |-> <<[status |-> StatusInternalServerError, body |-> <<>>,
                        ctype |-> ""],
                       [status |-> StatusInternalServerError,
                        body |-> <<asJSON(asItemList(items))>>,
                        ctype |-> "application/json"]>>,
          logs |-> <<err>>]
    ELSE [writes |-> <<[status |-> StatusOK, body |-> <<asJSON(asItemList(items))>>,
                        ctype |-> "application/json"]>>,
          logs |-> <<>>]

\* The handler from `if err != nil` on: the writes to w, each with its
\* status and its body (<<>>: none), and the lines logged.
respond(items, err) ==
  IF err # nil
    THEN [writes |-> <<[status |-> StatusInternalServerError, body |-> <<>>,
                        ctype |-> ""]>>,
          logs |-> <<err>>]
    ELSE [writes |-> <<[status |-> StatusOK, body |-> <<asJSON(asItemList(items))>>,
                        ctype |-> "application/json"]>>,
          logs |-> <<>>]

\* ----------------------------------------------------------------- state
VARIABLES
  now,       \* time.Now()
  cache,     \* c.items
  inflight,  \* bag of the handlers that are between arrival and response
  out,       \* what the latest step showed outside: <<>>, <<Called(...)>> or <<Done(...)>>
  resp,      \* reshaping: the CAPIResponse handed to asItemList
  list       \* reshaping: <<>> or <<the ItemList returned>>

vars == <<now, cache, inflight, out, resp, list>>

Empty == [k \in {} |-> 0]

\* A running handler: where it is, its path, the branch of the switch, the
\* c.Get calls made, the URL capiGet asked for, what upstream answered and
\* what capiGet returned.  fresh is history: no later fetch for the same
\* path has returned since this handler's fetch did.
Handler(pc, path, via, gets, upstream, items, fresh) ==
  [pc |-> pc, path |-> path, via |-> via, gets |-> gets, url |-> URL(path),
   upstream |-> upstream, items |-> items, fresh |-> fresh]

\* The finished request: its route, the cache and upstream operations it
\* made, what capiGet or the cache gave it, and what it wrote and logged.
\* prev is history: the value its c.Set replaced, if any.
Done(h, calls, sets, items, err, prev) ==
  [kind |-> "response", path |-> h.path, via |-> h.via, gets |-> h.gets, sets |-> sets,
   calls |-> calls, url |-> h.url, upstream |-> h.upstream, items |-> items,
   err |-> err, fresh |-> h.fresh, prev |-> prev,
   writes |-> respond(items, err).writes, logs |-> respond(items, err).logs]

\* The handler went into capiGet: the GET for h.url is on the wire.  stale is
\* history: c.Get found an entry, and it had expired.
Called(h, stale) ==
  [kind |-> "call", path |-> h.path, via |-> h.via, url |-> h.url, stale |-> stale]

\* Every handler of B that waits to c.Set under key k learns that a later
\* fetch for k has returned.
Overtake(B, k) ==
  LET stale(e) == IF e.pc = "set" /\ e.path = k THEN [e EXCEPT !.fresh = FALSE] ELSE e
      S == {stale(e) : e \in BagToSet(B)}
  IN  [t \in S |->
         IF t.pc = "set" /\ t.path = k
           THEN CopiesIn(t, B) + CopiesIn([t EXCEPT !.fresh = TRUE], B)
           ELSE CopiesIn(t, B)]

Init ==
  /\ now = 0
  /\ cache = Empty
  /\ inflight = EmptyBag
  /\ out = <<>>
  /\ resp = ZeroResponse
  /\ list = <<>>

reshaping == <<resp, list>>

\* A request for /most-viewed/<path> arrives: the handler runs up to its
\* first blocking call.  On the cached route that includes c.Get, and on a
\* hit the whole handler.
Arrive(path) ==
  /\ BagCardinality(inflight) < MaxInflight
  /\ IF usesCache(path)
       THEN LET g == cachedGetLookup(cache, path, now)
                h == Handler("capi", path, "cachedGet", 1, <<>>, ZeroResponse, TRUE)
            IN  IF g.found
                  THEN /\ out' = <<Done(h, 0, 0, g.items, nil, <<>>)>>
                       /\ UNCHANGED inflight
                  ELSE /\ inflight' = inflight (+) SetToBag({h})
                       /\ out' = <<Called(h, path \in DOMAIN cache)>>
       ELSE LET h == Handler("capi", path, "capiGet", 0, <<>>, ZeroResponse, TRUE)
            IN  /\ inflight' = inflight (+) SetToBag({h})
                /\ out' = <<Called(h, FALSE)>>
  /\ UNCHANGED <<now, cache, reshaping>>

\* http.Get and ReadAll return o to handler h, and capiGet returns.  The
\* direct route responds; the cached route responds on an error and goes on
\* to c.Set otherwise.
UpstreamReply(h, o) ==
  /\ h.pc = "capi"
  /\ LET r == capiGet(h.url.path, o)
         rest == inflight (-) SetToBag({h})
         g == [h EXCEPT !.upstream = <<o>>]
     IN  IF h.via = "capiGet"
           THEN /\ inflight' = rest
                /\ out' = <<Done(g, 1, 0, r.items, r.err, <<>>)>>
           ELSE IF r.err # nil
             THEN /\ inflight' = rest
                  /\ out' = <<Done(g, 1, 0, r.items, Wrap(r.err, "CAPI GET failed"), <<>>)>>
             ELSE /\ inflight' = Overtake(rest, h.path) (+)
                       SetToBag({[g EXCEPT !.pc = "set", !.items = r.items]})
                  /\ out' = <<>>
  /\ UNCHANGED <<now, cache, reshaping>>

\* c.Set of cachedGet, and the rest of the handler.
CacheSet(h) ==
  /\ h.pc = "set"
  /\ cache' = cachedGetStore(cache, h.path, h.items, now)
  /\ inflight' = inflight (-) SetToBag({h})
  /\ out' = <<Done(h, 1, 1, h.items, nil,
                   IF h.path \in DOMAIN cache THEN <<cache[h.path].Object>> ELSE <<>>)>>
  /\ UNCHANGED <<now, reshaping>>

Tick ==
  /\ now < MaxTime
  /\ now' = now + 1
  /\ out' = <<>>
  /\ UNCHANGED <<cache, inflight, reshaping>>

\* The janitor goroutine of go-cache, woken by its ticker.
Janitor ==
  /\ now > 0
  /\ now % CleanupInterval = 0
  /\ cache' = DeleteExpired(cache, now)
  /\ out' = <<>>
  /\ UNCHANGED <<now, inflight, reshaping>>

Next ==
  \/ \E path \in Paths : Arrive(path)
  \/ \E h \in BagToSet(inflight) : \E o \in Outcomes(h.url.path) : UpstreamReply(h, o)
  \/ \E h \in BagToSet(inflight) : CacheSet(h)
  \/ Tick
  \/ Janitor

Spec == Init /\ [][Next]_vars

\* ---------------------------------------------------------------- claims
Finished == out # <<>> /\ out[1].kind = "response"
Status(d) == d.writes[1].status
Running(k) == \E h \in BagToSet(inflight) : h.path = k

\* This step, a request for k arrived and went to upstream.
MissArrival(k) == out' # <<>> /\ out'[1].kind = "call" /\ out'[1].path = k
\* This step, a request for k arrived and was answered from the cache.
HitArrival(k) ==
  out' # <<>> /\ out'[1].kind = "response" /\ out'[1].path = k /\ out'[1].calls = 0
\* This step, a handler for k made its c.Set.
SetStep(k) ==
  out' # <<>> /\ out'[1].kind = "response" /\ out'[1].path = k /\ out'[1].sets = 1

\* The well-formed bodies upstream offers for path k.
Fetchable(k) ==
  {CAPIResponse(o.results) :
     o \in {x \in Outcomes(k) : ~x.transport /\ ~x.readErr /\ x.json = "ok"}}

\* C2: the keys of the cache are among uk, us and au, and a request for any
\* other code makes no c.Get and no c.Set, neither while it runs nor by the
\* time it has responded.
C2_CacheKeysAllowListed ==
  /\ DOMAIN cache \subseteq AllowList
  /\ \A h \in BagToSet(inflight) :
       h.path \notin AllowList => h.gets = 0 /\ h.pc # "set" /\ h.via = "capiGet"
  /\ (Finished /\ out[1].path \notin AllowList) => out[1].gets = 0 /\ out[1].sets = 0

\* A request for fr got its 200 while the cache holds entries.
C2_Witness ==
  /\ Finished /\ out[1].path = "fr" /\ Status(out[1]) = StatusOK
  /\ out[1].gets = 0 /\ out[1].sets = 0
  /\ DOMAIN cache # {}

\* C3 as claimed: a request whose upstream call ended in a transport error
\* or a status outside 200..299 is answered 500 and made no c.Set.
C3_UpstreamFailureIs500 ==
  (Finished /\ out[1].upstream # <<>>
     /\ (out[1].upstream[1].transport \/ out[1].upstream[1].status \notin 200..299))
  => Status(out[1]) = StatusInternalServerError /\ out[1].sets = 0

\* C4: a request for a code outside uk, us, au has exactly one GET, for the
\* URL with that code as its path: it is on the wire while the handler
\* runs, and it is the one call the finished request made.
C4_UncachedAlwaysCalls ==
  /\ \A h \in BagToSet(inflight) :
       h.path \notin AllowList => h.pc = "capi" /\ h.url.path = h.path
  /\ (out # <<>> /\ out[1].path \notin AllowList) =>
       /\ out[1].url.path = out[1].path
       /\ out[1].kind = "response" => out[1].calls = 1 /\ out[1].upstream # <<>>

\* A request for fr has just been answered 200 from upstream while another
\* request for fr has its own GET on the wire.
C4_Witness ==
  /\ Finished /\ out[1].path = "fr" /\ Status(out[1]) = StatusOK /\ out[1].calls = 1
  /\ \E h \in BagToSet(inflight) : h.path = "fr" /\ h.pc = "capi"

\* The message errorResponse logs, below the "CAPI GET failed" that
\* cachedGet puts in front.
Cause(d) == IF d.via = "cachedGet" THEN d.logs[1][2] ELSE d.logs[1][1]

\* C6: a body that is not JSON gives a 500 whose one log line has the cause
\* "Unable to unmarshal response body", under "CAPI GET failed" on the
\* cached route and outermost on the direct one; a transport error logs the
\* cause "GET failed" and a broken body stream "Unable to read response
\* body", so the three differ.
C6_DecodeErrorDistinct ==
  (Finished /\ out[1].upstream # <<>>) =>
    LET d == out[1]
        o == d.upstream[1]
    IN  /\ (~o.transport /\ ~o.readErr /\ o.json = "syntax") =>
             /\ Status(d) = StatusInternalServerError
             /\ Len(d.logs) = 1
             /\ Cause(d) = "Unable to unmarshal response body"
             /\ d.via = "cachedGet" => d.logs[1][1] = "CAPI GET failed"
        /\ o.transport =>
             Len(d.logs) = 1 /\ Cause(d) = "GET failed"
        /\ (~o.transport /\ o.readErr) =>
             Len(d.logs) = 1 /\ Cause(d) = "Unable to read response body"

\* Upstream sent a body that is not JSON for uk, and the request got its 500.
C6_Witness ==
  /\ Finished /\ out[1].path = "uk" /\ out[1].upstream # <<>>
  /\ ~out[1].upstream[1].transport /\ ~out[1].upstream[1].readErr
  /\ out[1].upstream[1].json = "syntax"
  /\ out[1].logs = <<<<"CAPI GET failed", "Unable to unmarshal response body",
                      "json: invalid character">>>>

\* C7: a finished request has written exactly once: 200 with the JSON of the
\* reshaped list and nothing logged when the fetch gave no error, 500 with
\* no body and one line logged when it gave one.
C7_OneResponse ==
  Finished =>
    LET d == out[1]
    IN  /\ Len(d.writes) = 1
        /\ \/ /\ d.err = nil
              /\ Status(d) = StatusOK
              /\ d.writes[1].body = <<asJSON(asItemList(d.items))>>
              /\ d.logs = <<>>
           \/ /\ d.err # nil
              /\ Status(d) = StatusInternalServerError
              /\ d.writes[1].body = <<>>
              /\ d.logs = <<d.err>>

\* A failed request: one 500, one log line.
C7_Witness ==
  /\ Finished /\ out[1].err # nil /\ Len(out[1].writes) = 1
  /\ Status(out[1]) = StatusInternalServerError /\ Len(out[1].logs) = 1

\* C8: the entry a c.Set leaves is the value of the handler that made it,
\* whatever was there and whenever that value was fetched.
C8_LastWriterWins ==
  (Finished /\ out[1].sets = 1) =>
    /\ out[1].path \in DOMAIN cache
    /\ cache[out[1].path].Object = out[1].items

\* Two requests for one code both missed and both fetched; the one whose
\* fetch returned first made its c.Set last, over the other's different
\* value, and its value is the entry.
C8_Witness ==
  /\ Finished /\ out[1].sets = 1 /\ out[1].calls = 1
  /\ ~out[1].fresh
  /\ out[1].prev # <<>> /\ out[1].prev[1] # out[1].items
  /\ ~Running(out[1].path)
  /\ cache[out[1].path].Object = out[1].items

\* x is what the GET answered by upstream held, the GET was for path k, and
\* capiGet returned it with a nil error.
FetchedFor(k, upstream, x) ==
  /\ upstream # <<>>
  /\ upstream[1] \in Outcomes(k)
  /\ ~upstream[1].transport /\ ~upstream[1].readErr /\ upstream[1].json = "ok"
  /\ x = CAPIResponse(upstream[1].results)

\* C10: the value under key k is a well-formed response of upstream for
\* path k, never the result of a fetch capiGet reported as failed (a
\* half-decoded one among them) and never another path's; the value a handler
\* carries to its c.Set, and stores, is the one its own fetch for its own
\* path returned; and a 200 for code k carries the reshaping of a response
\* for path k, its own fetch's when it made one.
C10_CacheHoldsOwnRegion ==
  /\ \A k \in DOMAIN cache : cache[k].Object \in Fetchable(k)
  /\ \A h \in BagToSet(inflight) :
       h.pc = "set" => FetchedFor(h.path, h.upstream, h.items)
  /\ (Finished /\ out[1].sets = 1) =>
       /\ FetchedFor(out[1].path, out[1].upstream, out[1].items)
       /\ out[1].path \in DOMAIN cache
       /\ cache[out[1].path].Object = out[1].items
  /\ (Finished /\ out[1].err # nil) => out[1].sets = 0
  /\ (Finished /\ Status(out[1]) = StatusOK) =>
       /\ out[1].items \in Fetchable(out[1].path)
       /\ out[1].calls = 1 => FetchedFor(out[1].path, out[1].upstream, out[1].items)
       /\ out[1].writes[1].body = <<asJSON(asItemList(out[1].items))>>

\* uk and us are both cached with their own lists, and a request for us is
\* served its list from the cache.
C10_Witness ==
  /\ {"uk", "us"} \subseteq DOMAIN cache
  /\ cache["uk"].Object = CAPIResponse(MostViewed("uk"))
  /\ cache["us"].Object = CAPIResponse(MostViewed("us"))
  /\ Finished /\ out[1].path = "us" /\ out[1].calls = 0
  /\ out[1].items = CAPIResponse(MostViewed("us"))

\* The cache holds an entry for k that has not expired.
Live(k) == k \in DOMAIN cache /\ now <= cache[k].Expiration

\* C1 as claimed: a request for an allow-listed code that arrives within TTL
\* of an earlier request for that code makes no upstream call.  The clock
\* started at 0, so while now <= TTL every request there has been arrived
\* within TTL; an earlier one is in sight while it runs or has just responded.
C1_SecondRequestNeverFetches ==
  [][\A k \in AllowList :
       (now <= TTL /\ (Running(k) \/ (Finished /\ out[1].path = k)))
         => ~MissArrival(k)]_vars

\* C1, amended: while the cache holds an unexpired entry for an allow-listed
\* code (one a finished c.Set wrote no more than TTL ago), no request for
\* that code goes to upstream, and a request answered without an upstream
\* call gets a 200 with that entry's value.
C1_LiveEntryShortCircuits ==
  [][\A k \in AllowList :
       /\ Live(k) => ~MissArrival(k)
       /\ HitArrival(k) =>
            /\ Live(k)
            /\ out'[1].items = cache[k].Object
            /\ Status(out'[1]) = StatusOK]_vars

\* A request was served from an entry at the last instant of its TTL.
C1_Witness ==
  /\ Finished /\ out[1].path \in AllowList /\ out[1].calls = 0
  /\ out[1].path \in DOMAIN cache
  /\ cache[out[1].path].Expiration = now /\ now >= TTL

\* C9: an entry appears or changes only by a c.Set, which gives it the
\* expiration now + TTL; no other step (a hit among them) touches an entry
\* that stays; and a request for an allow-listed code whose entry is absent
\* or past its expiration is not answered from the cache.
C9_AbsoluteExpiry ==
  [][/\ \A k \in DOMAIN cache' :
          \/ k \in DOMAIN cache /\ cache'[k] = cache[k]
          \/ SetStep(k) /\ cache'[k].Expiration = now + TTL
     /\ \A k \in AllowList : ~Live(k) => ~HitArrival(k)]_vars

\* A request found its code's entry expired and went to upstream.
C9_Witness ==
  /\ out # <<>> /\ out[1].kind = "call" /\ out[1].stale
  /\ out[1].path \in DOMAIN cache
  /\ now > cache[out[1].path].Expiration

\* ------------------------------------------------------------- reshaping
\* asItemList on its own: any mostViewed list of up to MaxResults IDs, IDs
\* repeated and empty IDs included.
ReshapeIDs == {CAPIItem("uk", 1), CAPIItem("uk", 2), ZeroItem}

RECURSIVE Lists(_)
Lists(n) ==
  IF n = 0 THEN {<<>>}
  ELSE Lists(n - 1) \cup
       {Append(l, id) : l \in {x \in Lists(n - 1) : Len(x) = n - 1}, id \in ReshapeIDs}

\* json.Unmarshal filled a CAPIResponse.
Decode(results) ==
  /\ resp' = CAPIResponse(results)
  /\ list' = <<>>
  /\ UNCHANGED <<now, cache, inflight, out>>

\* items.asItemList()
Reshape ==
  /\ list = <<>>
  /\ list' = <<asItemList(resp)>>
  /\ UNCHANGED <<now, cache, inflight, out, resp>>

NextReshape ==
  \/ \E results \in Lists(MaxResults) : Decode(results)
  \/ Reshape

SpecReshape == Init /\ [][NextReshape]_vars

\* C5: the list asItemList returns for N IDs has the heading "Placeholder
\* heading" and N trails, the i-th with the i-th ID as its URL and "foo" in
\* every other field.
C5_ReshapeKeepsOrder ==
  list # <<>> =>
    LET il == list[1]
        N == Len(resp.Results)
    IN  /\ il.Heading = "Placeholder heading"
        /\ Len(il.Trails) = N
        /\ \A i \in 1..N :
             /\ il.Trails[i].URL = resp.Results[i]
             /\ il.Trails[i].LinkText = "foo"
             /\ il.Trails[i].ShowByline = "foo"
             /\ il.Trails[i].Byline = "foo"
             /\ il.Trails[i].Image = "foo"
             /\ il.Trails[i].IsLiveblog = "foo"

\* A list of three or more IDs, the first two equal and the third another,
\* has been reshaped.
C5_Witness ==
  /\ list # <<>> /\ Len(resp.Results) >= 3
  /\ resp.Results[1] = resp.Results[2] /\ resp.Results[2] # resp.Results[3]
  /\ Len(list[1].Trails) = Len(resp.Results)

====
